---- MODULE Spec2Model ----
(***************************************************************************)
(* Scheduler boost coordinator of kernel/sched/boost.c.                    *)
(*                                                                         *)
(* State: the refcount table boost_refcount, the published values          *)
(* sched_boost_type, boost_policy and sysctl_sched_boost, the boot-time    *)
(* override boost_policy_dt, the lock boost_mutex, and for every thread    *)
(* its position in sched_set_boost / sched_boost_handler together with its *)
(* locals.  The stores of lines 159, 160 and 162 are separate steps,       *)
(* because the published variables are read by other code without the     *)
(* lock.  The downstream hooks are modelled by the argument of their most  *)
(* recent call.                                                            *)
(***************************************************************************)
EXTENDS Integers, Sequences, FiniteSets, TLC

\* ------------------------------------------------------------------ bounds
NThreads == 2
MaxRef == 2
\* The refcount cap where waiting at mutex_lock is a position of its own.
LiveRef == 1
ExtraCodes == 1

\* ------------------------------------------------------- program constants
NO_BOOST == 0
FULL_THROTTLE_BOOST == 1
CONSERVATIVE_BOOST == 2
RESTRAINED_BOOST == 3
FULL_THROTTLE_BOOST_DISABLE == -1
CONSERVATIVE_BOOST_DISABLE == -2
RESTRAINED_BOOST_DISABLE == -3
MAX_NUM_BOOST_TYPE == 4

SCHED_BOOST_NONE == 0
SCHED_BOOST_ON_BIG == 1
SCHED_BOOST_ON_ALL == 2

EINVAL == 22
EFAULT == 14

Threads == 1..NThreads
NoOwner == 0

\* The integers a caller may pass or write: the seven legal request codes and
\* ExtraCodes illegal ones on each side.
ArgCodes == (RESTRAINED_BOOST_DISABLE - ExtraCodes)..(RESTRAINED_BOOST + ExtraCodes)

Efficiencies == {1, 2}

VARIABLES
    boost_refcount,          \* static int boost_refcount[MAX_NUM_BOOST_TYPE]
    sched_boost_type,        \* unsigned int
    sysctl_sched_boost,      \* the data of the sysctl entry, as the int that
                             \* proc_dointvec_minmax stores in and reads from it
    boost_policy,
    boost_policy_dt,
    min_possible_efficiency,
    max_possible_efficiency,
    boost_mutex,             \* NoOwner or the thread holding the mutex
    phase,                   \* "boot" until sched_boost_parse_dt has run
    core_ctl_boost,          \* argument of the last core_ctl_set_boost
    freq_aggregation,        \* argument of the last walt_enable_frequency_aggregation
    cgroup_updated,          \* TRUE after update_, FALSE after restore_cgroup_boost_settings
    pc,                      \* position of each thread
    entry,                   \* the entry point each thread is in
    req,                     \* the request code the thread's call carries
    type,                    \* the local `type` of _sched_set_boost
    write,                   \* the handler's `write` argument
    ret,                     \* the local `ret`
    pre,                     \* the state when the running request took the lock
    reqHooks,                \* hook calls made by the running request
    reqTrace,                \* trace_sched_set_boost events of the running request
    rt,                      \* the enable/disable run being followed
    procOut,                 \* what proc_dointvec_minmax did in each thread's call
    lastRaw,                 \* the last integer stored through the sysctl entry
    held                     \* held[t][k]: enables of kind k that caller t has
                             \* not yet matched by a disable

vars == <<boost_refcount, sched_boost_type, sysctl_sched_boost, boost_policy,
          boost_policy_dt, min_possible_efficiency, max_possible_efficiency,
          boost_mutex, phase, core_ctl_boost, freq_aggregation, cgroup_updated,
          pc, entry, req, type, write, ret, pre, reqHooks, reqTrace, rt,
          procOut, lastRaw, held>>

\* ------------------------------------------------------------------ hooks
Hook(fn, arg) == [fn |-> fn, arg |-> arg]

RECURSIVE LastArg(_, _, _)
LastArg(hooks, fns, default) ==
    IF hooks = <<>> THEN default
    ELSE LET h == hooks[Len(hooks)]
         IN IF h.fn \in fns THEN h.arg
            ELSE LastArg(SubSeq(hooks, 1, Len(hooks) - 1), fns, default)

core_ctl_set_boost(b) == Hook("core_ctl_set_boost", b)
walt_enable_frequency_aggregation(b) == Hook("walt_enable_frequency_aggregation", b)
update_cgroup_boost_settings == Hook("update_cgroup_boost_settings", TRUE)
restore_cgroup_boost_settings == Hook("restore_cgroup_boost_settings", FALSE)

\* ------------------------------------------------------- set_boost_policy
\* Variant: the heterogeneity test is made before the boot-time override.
set_boost_policy_HetFirst(t) ==
    IF t = NO_BOOST \/ t = RESTRAINED_BOOST THEN SCHED_BOOST_NONE
    ELSE IF min_possible_efficiency # max_possible_efficiency THEN SCHED_BOOST_ON_BIG
    ELSE IF boost_policy_dt # SCHED_BOOST_NONE THEN boost_policy_dt
    ELSE SCHED_BOOST_ON_ALL

set_boost_policy(t) ==
    IF t = NO_BOOST \/ t = RESTRAINED_BOOST THEN SCHED_BOOST_NONE
    ELSE IF boost_policy_dt # SCHED_BOOST_NONE THEN boost_policy_dt
    ELSE IF min_possible_efficiency # max_possible_efficiency THEN SCHED_BOOST_ON_BIG
    ELSE SCHED_BOOST_ON_ALL

\* Variant: the upper limit is off by one.
verify_boost_params_OffByOne(t) ==
    t >= RESTRAINED_BOOST_DISABLE /\ t <= RESTRAINED_BOOST + 1

\* Variant: the lower limit is off by one.
verify_boost_params_LowOffByOne(t) ==
    t >= RESTRAINED_BOOST_DISABLE - 1 /\ t <= RESTRAINED_BOOST

verify_boost_params(t) == t >= RESTRAINED_BOOST_DISABLE /\ t <= RESTRAINED_BOOST

\* ------------------------------------------- the switch of _sched_set_boost
\* Each case gives the refcount table and the hook calls it makes, in order.
Eff(rc, hooks) == [rc |-> rc, hooks |-> hooks]

\* Variant: the three tests are chained with else, so only the first kind
\* that is held gets cleared.
Case_NO_BOOST_ElseIf(rc) ==
    IF rc[FULL_THROTTLE_BOOST] > 0
    THEN Eff([rc EXCEPT ![FULL_THROTTLE_BOOST] = 0],
             <<core_ctl_set_boost(FALSE), walt_enable_frequency_aggregation(FALSE)>>)
    ELSE IF rc[CONSERVATIVE_BOOST] > 0
    THEN Eff([rc EXCEPT ![CONSERVATIVE_BOOST] = 0], <<restore_cgroup_boost_settings>>)
    ELSE IF rc[RESTRAINED_BOOST] > 0
    THEN Eff([rc EXCEPT ![RESTRAINED_BOOST] = 0],
             <<walt_enable_frequency_aggregation(FALSE)>>)
    ELSE Eff(rc, <<>>)

Case_NO_BOOST(rc) ==
    LET h1 == IF rc[FULL_THROTTLE_BOOST] > 0
              THEN <<core_ctl_set_boost(FALSE), walt_enable_frequency_aggregation(FALSE)>>
              ELSE <<>>
        r1 == IF rc[FULL_THROTTLE_BOOST] > 0
              THEN [rc EXCEPT ![FULL_THROTTLE_BOOST] = 0] ELSE rc
        h2 == IF r1[CONSERVATIVE_BOOST] > 0
              THEN <<restore_cgroup_boost_settings>> ELSE <<>>
        r2 == IF r1[CONSERVATIVE_BOOST] > 0
              THEN [r1 EXCEPT ![CONSERVATIVE_BOOST] = 0] ELSE r1
        h3 == IF r2[RESTRAINED_BOOST] > 0
              THEN <<walt_enable_frequency_aggregation(FALSE)>> ELSE <<>>
        r3 == IF r2[RESTRAINED_BOOST] > 0
              THEN [r2 EXCEPT ![RESTRAINED_BOOST] = 0] ELSE r2
    IN Eff(r3, h1 \o h2 \o h3)

\* Variant: the hooks are called on every enable, not only on the first.
Case_FULL_THROTTLE_BOOST_NoEdge(rc) ==
    LET r == [rc EXCEPT ![FULL_THROTTLE_BOOST] = @ + 1]
    IN Eff(r, <<core_ctl_set_boost(TRUE), restore_cgroup_boost_settings>>
              \o (IF r[RESTRAINED_BOOST] = 0
                  THEN <<walt_enable_frequency_aggregation(TRUE)>> ELSE <<>>))

Case_FULL_THROTTLE_BOOST(rc) ==
    LET r == [rc EXCEPT ![FULL_THROTTLE_BOOST] = @ + 1]
    IN Eff(r, IF r[FULL_THROTTLE_BOOST] = 1
              THEN <<core_ctl_set_boost(TRUE), restore_cgroup_boost_settings>>
                   \o (IF r[RESTRAINED_BOOST] = 0
                       THEN <<walt_enable_frequency_aggregation(TRUE)>> ELSE <<>>)
              ELSE <<>>)

\* Variant: the cgroup settings are updated whether or not FULL_THROTTLE is held.
Case_CONSERVATIVE_BOOST_NoFtTest(rc) ==
    LET r == [rc EXCEPT ![CONSERVATIVE_BOOST] = @ + 1]
    IN Eff(r, IF r[CONSERVATIVE_BOOST] = 1
              THEN <<update_cgroup_boost_settings>> ELSE <<>>)

Case_CONSERVATIVE_BOOST(rc) ==
    LET r == [rc EXCEPT ![CONSERVATIVE_BOOST] = @ + 1]
    IN Eff(r, IF r[CONSERVATIVE_BOOST] = 1 /\ r[FULL_THROTTLE_BOOST] = 0
              THEN <<update_cgroup_boost_settings>> ELSE <<>>)

\* Variant: frequency aggregation is not enabled.
Case_RESTRAINED_BOOST_NoHook(rc) ==
    Eff([rc EXCEPT ![RESTRAINED_BOOST] = @ + 1], <<>>)

Case_RESTRAINED_BOOST(rc) ==
    LET r == [rc EXCEPT ![RESTRAINED_BOOST] = @ + 1]
    IN Eff(r, IF r[RESTRAINED_BOOST] = 1 /\ r[FULL_THROTTLE_BOOST] = 0
              THEN <<walt_enable_frequency_aggregation(TRUE)>> ELSE <<>>)

\* Variant: the hooks of the last disable are also called when nothing is held.
Case_FULL_THROTTLE_BOOST_DISABLE_NoGuard(rc) ==
    LET r == IF rc[FULL_THROTTLE_BOOST] >= 1
             THEN [rc EXCEPT ![FULL_THROTTLE_BOOST] = @ - 1] ELSE rc
    IN Eff(r, IF r[FULL_THROTTLE_BOOST] = 0
              THEN <<core_ctl_set_boost(FALSE)>>
                   \o (IF r[CONSERVATIVE_BOOST] >= 1
                       THEN <<update_cgroup_boost_settings>> ELSE <<>>)
                   \o (IF r[RESTRAINED_BOOST] = 0
                       THEN <<walt_enable_frequency_aggregation(FALSE)>> ELSE <<>>)
              ELSE <<>>)

Case_FULL_THROTTLE_BOOST_DISABLE(rc) ==
    IF rc[FULL_THROTTLE_BOOST] >= 1
    THEN LET r == [rc EXCEPT ![FULL_THROTTLE_BOOST] = @ - 1]
         IN Eff(r, IF r[FULL_THROTTLE_BOOST] = 0
                   THEN <<core_ctl_set_boost(FALSE)>>
                        \o (IF r[CONSERVATIVE_BOOST] >= 1
                            THEN <<update_cgroup_boost_settings>> ELSE <<>>)
                        \o (IF r[RESTRAINED_BOOST] = 0
                            THEN <<walt_enable_frequency_aggregation(FALSE)>> ELSE <<>>)
                   ELSE <<>>)
    ELSE Eff(rc, <<>>)

\* Variant: the count is tested for zero before it is decremented.
Case_CONSERVATIVE_BOOST_DISABLE_TestFirst(rc) ==
    IF rc[CONSERVATIVE_BOOST] >= 1
    THEN Eff([rc EXCEPT ![CONSERVATIVE_BOOST] = @ - 1],
             IF rc[CONSERVATIVE_BOOST] = 0
             THEN <<restore_cgroup_boost_settings>> ELSE <<>>)
    ELSE Eff(rc, <<>>)

\* Variant: the decrement is not guarded by refcount >= 1.
Case_CONSERVATIVE_BOOST_DISABLE_Unguarded(rc) ==
    LET r == [rc EXCEPT ![CONSERVATIVE_BOOST] = @ - 1]
    IN Eff(r, IF r[CONSERVATIVE_BOOST] = 0
              THEN <<restore_cgroup_boost_settings>> ELSE <<>>)

Case_CONSERVATIVE_BOOST_DISABLE(rc) ==
    IF rc[CONSERVATIVE_BOOST] >= 1
    THEN LET r == [rc EXCEPT ![CONSERVATIVE_BOOST] = @ - 1]
         IN Eff(r, IF r[CONSERVATIVE_BOOST] = 0
                   THEN <<restore_cgroup_boost_settings>> ELSE <<>>)
    ELSE Eff(rc, <<>>)

\* Variant: frequency aggregation is disabled whether or not FULL_THROTTLE is held.
Case_RESTRAINED_BOOST_DISABLE_NoFtTest(rc) ==
    IF rc[RESTRAINED_BOOST] >= 1
    THEN LET r == [rc EXCEPT ![RESTRAINED_BOOST] = @ - 1]
         IN Eff(r, IF r[RESTRAINED_BOOST] = 0
                   THEN <<walt_enable_frequency_aggregation(FALSE)>> ELSE <<>>)
    ELSE Eff(rc, <<>>)

\* Variant: a disable drops every outstanding request of the kind.
Case_RESTRAINED_BOOST_DISABLE_Reset(rc) ==
    IF rc[RESTRAINED_BOOST] >= 1
    THEN LET r == [rc EXCEPT ![RESTRAINED_BOOST] = 0]
         IN Eff(r, IF r[FULL_THROTTLE_BOOST] = 0
                   THEN <<walt_enable_frequency_aggregation(FALSE)>> ELSE <<>>)
    ELSE Eff(rc, <<>>)

Case_RESTRAINED_BOOST_DISABLE(rc) ==
    IF rc[RESTRAINED_BOOST] >= 1
    THEN LET r == [rc EXCEPT ![RESTRAINED_BOOST] = @ - 1]
         IN Eff(r, IF r[RESTRAINED_BOOST] = 0 /\ r[FULL_THROTTLE_BOOST] = 0
                   THEN <<walt_enable_frequency_aggregation(FALSE)>> ELSE <<>>)
    ELSE Eff(rc, <<>>)

\* TRUE for the codes the switch has a case for; the others take `default`.
SwitchHandles(t) ==
    t \in {NO_BOOST, FULL_THROTTLE_BOOST, CONSERVATIVE_BOOST, RESTRAINED_BOOST,
           FULL_THROTTLE_BOOST_DISABLE, CONSERVATIVE_BOOST_DISABLE,
           RESTRAINED_BOOST_DISABLE}

SwitchEffect(rc, t) ==
    CASE t = NO_BOOST -> Case_NO_BOOST(rc)
      [] t = FULL_THROTTLE_BOOST -> Case_FULL_THROTTLE_BOOST(rc)
      [] t = CONSERVATIVE_BOOST -> Case_CONSERVATIVE_BOOST(rc)
      [] t = RESTRAINED_BOOST -> Case_RESTRAINED_BOOST(rc)
      [] t = FULL_THROTTLE_BOOST_DISABLE -> Case_FULL_THROTTLE_BOOST_DISABLE(rc)
      [] t = CONSERVATIVE_BOOST_DISABLE -> Case_CONSERVATIVE_BOOST_DISABLE(rc)
      [] t = RESTRAINED_BOOST_DISABLE -> Case_RESTRAINED_BOOST_DISABLE(rc)
      [] OTHER -> Eff(rc, <<>>)

\* Variant: RESTRAINED is tested before CONSERVATIVE.
AggregateType_Swapped(rc) ==
    IF rc[FULL_THROTTLE_BOOST] >= 1 THEN FULL_THROTTLE_BOOST
    ELSE IF rc[RESTRAINED_BOOST] >= 1 THEN RESTRAINED_BOOST
    ELSE IF rc[CONSERVATIVE_BOOST] >= 1 THEN CONSERVATIVE_BOOST
    ELSE NO_BOOST

\* "Aggregate final boost type"
AggregateType(rc) ==
    IF rc[FULL_THROTTLE_BOOST] >= 1 THEN FULL_THROTTLE_BOOST
    ELSE IF rc[CONSERVATIVE_BOOST] >= 1 THEN CONSERVATIVE_BOOST
    ELSE IF rc[RESTRAINED_BOOST] >= 1 THEN RESTRAINED_BOOST
    ELSE NO_BOOST

\* ------------------------------------------------------------- observation
Snapshot == [rc |-> boost_refcount, type |-> sched_boost_type,
             pol |-> boost_policy, sysctl |-> sysctl_sched_boost]

NoSnapshot == [rc |-> [k \in 0..(MAX_NUM_BOOST_TYPE - 1) |-> 0], type |-> 0,
               pol |-> 0, sysctl |-> 0]

RtOff == [on |-> FALSE, kind |-> 0, up |-> 0, down |-> 0, snap |-> NoSnapshot]

EnableCodes == {FULL_THROTTLE_BOOST, CONSERVATIVE_BOOST, RESTRAINED_BOOST}

\* The run of enables of one kind followed by disables of that kind, as
\* continued by the request `code`; `start` begins a new run at this request.
RtStep(r, code, snap, start) ==
    IF code \in EnableCodes /\ start
    THEN [on |-> TRUE, kind |-> code, up |-> 1, down |-> 0, snap |-> snap]
    ELSE IF r.on /\ code = r.kind /\ r.down = 0
    THEN [r EXCEPT !.up = @ + 1]
    ELSE IF r.on /\ code = 0 - r.kind /\ r.down < r.up
    THEN [r EXCEPT !.down = @ + 1]
    ELSE RtOff

\* No call of proc_dointvec_minmax is in progress.
NoProcOut == [ret |-> 0, store |-> FALSE, val |-> 0, rd |-> 0]

\* The model keeps every refcount at most MaxRef.
WithinCap(code) == code \in EnableCodes => boost_refcount[code] < MaxRef

\* ------------------------------------------------------------------- Init
Init ==
    /\ boost_refcount = [k \in 0..(MAX_NUM_BOOST_TYPE - 1) |-> 0]
    /\ sched_boost_type = 0
    /\ sysctl_sched_boost = 0
    /\ boost_policy = SCHED_BOOST_NONE
    /\ boost_policy_dt = SCHED_BOOST_NONE
    /\ min_possible_efficiency = 1
    /\ max_possible_efficiency \in Efficiencies
    /\ boost_mutex = NoOwner
    /\ phase = "boot"
    /\ core_ctl_boost = FALSE
    /\ freq_aggregation = FALSE
    /\ cgroup_updated = FALSE
    /\ pc = [t \in Threads |-> "idle"]
    /\ entry = [t \in Threads |-> "none"]
    /\ req = [t \in Threads |-> <<>>]
    /\ type = [t \in Threads |-> 0]
    /\ write = [t \in Threads |-> FALSE]
    /\ ret = [t \in Threads |-> 0]
    /\ pre = NoSnapshot
    /\ reqHooks = <<>>
    /\ reqTrace = <<>>
    /\ rt = RtOff
    /\ procOut = [t \in Threads |-> NoProcOut]
    /\ lastRaw = <<>>
    /\ held = [t \in Threads |-> [k \in EnableCodes |-> 0]]

\* ---------------------------------------------------------------- actions
env == <<boost_policy_dt, min_possible_efficiency, max_possible_efficiency, phase>>
hookState == <<core_ctl_boost, freq_aggregation, cgroup_updated>>
published == <<sched_boost_type, sysctl_sched_boost, boost_policy>>
locals == <<entry, req, type, write, ret, procOut>>
observed == <<pre, reqHooks, reqTrace, rt, lastRaw, held>>

\* The property values of /sched-hmp that sched_boost_parse_dt tells apart
\* ("absent" stands for a missing node and for a missing property).
DtStrings == {"absent", "boost-on-big", "boost-on-all", "other"}

ParsedPolicy(str) ==
    IF str = "boost-on-big" THEN SCHED_BOOST_ON_BIG
    ELSE IF str = "boost-on-all" THEN SCHED_BOOST_ON_ALL
    ELSE boost_policy_dt

\* Runs once at boot, before any request is served.
sched_boost_parse_dt ==
    /\ phase = "boot"
    /\ \E str \in DtStrings : boost_policy_dt' = ParsedPolicy(str)
    /\ phase' = "run"
    /\ UNCHANGED <<boost_refcount, published, min_possible_efficiency,
                   max_possible_efficiency, boost_mutex, hookState, pc, locals,
                   observed>>

\* Variant: a lock that never blocks.
MutexFree_NoWait == TRUE

\* mutex_lock(&boost_mutex) returns only when the mutex is free.
MutexFree == boost_mutex = NoOwner

\* What distinguishes the specifications below: whether runs of enables and
\* disables are followed (starts), whether the last integer stored through the
\* sysctl entry is recorded (raw), whether every caller pairs its enables with
\* disables (paired), and the position a call takes the lock from (a call that
\* has been made and waits for the mutex, or the call itself).
ModePlain == [starts |-> {FALSE}, raw |-> FALSE, paired |-> FALSE,
              setFrom |-> "idle", hFrom |-> "idle", cap |-> MaxRef]
ModeRT == [ModePlain EXCEPT !.starts = BOOLEAN]
ModeRW == [ModePlain EXCEPT !.raw = TRUE]
ModePairs == [ModePlain EXCEPT !.paired = TRUE]
ModeLive == [ModePlain EXCEPT !.setFrom = "set_wait", !.hFrom = "h_wait",
                              !.cap = LiveRef]

\* The refcount of a kind stays below the cap of the mode.
WithinModeCap(code, m) ==
    code \in EnableCodes => boost_refcount[code] < m.cap

\* The requests of a caller that withdraws exactly what it has enabled.
PairCodes(t) == EnableCodes \cup {0 - k : k \in {j \in EnableCodes : held[t][j] > 0}}

\* Paired callers together hold at most MaxRef + 1 enables.
WithinPairsCap(code) ==
    code \in EnableCodes =>
        boost_refcount[FULL_THROTTLE_BOOST] + boost_refcount[CONSERVATIVE_BOOST]
            + boost_refcount[RESTRAINED_BOOST] < MaxRef + 1

HeldAfter(t, code) ==
    IF code \in EnableCodes THEN [held EXCEPT ![t][code] = @ + 1]
    ELSE IF (0 - code) \in EnableCodes THEN [held EXCEPT ![t][0 - code] = @ - 1]
    ELSE held

\* A caller enters sched_set_boost and reaches mutex_lock.
sched_set_boost_call(t) ==
    /\ pc[t] = "idle"
    /\ phase = "run"
    /\ pc' = [pc EXCEPT ![t] = "set_wait"]
    /\ UNCHANGED <<boost_refcount, published, env, boost_mutex, hookState,
                   locals, observed>>

\* A caller enters sched_boost_handler and reaches mutex_lock.
sched_boost_handler_call(t) ==
    /\ pc[t] = "idle"
    /\ phase = "run"
    /\ pc' = [pc EXCEPT ![t] = "h_wait"]
    /\ UNCHANGED <<boost_refcount, published, env, boost_mutex, hookState,
                   locals, observed>>

\* sched_set_boost(code): mutex_lock returns.
sched_set_boost_lock(t, m) ==
    /\ pc[t] = m.setFrom
    /\ phase = "run"
    /\ MutexFree
    /\ \E code \in (IF m.paired THEN PairCodes(t) ELSE ArgCodes), start \in m.starts :
          /\ WithinCap(code)
          /\ WithinModeCap(code, m)
          /\ m.paired => WithinPairsCap(code)
          /\ req' = [req EXCEPT ![t] = <<code>>]
          /\ type' = [type EXCEPT ![t] = code]
          /\ rt' = RtStep(rt, code, Snapshot, start)
          /\ held' = IF m.paired THEN HeldAfter(t, code) ELSE held
    /\ boost_mutex' = t
    /\ pc' = [pc EXCEPT ![t] = "set_verify"]
    /\ entry' = [entry EXCEPT ![t] = "sched_set_boost"]
    /\ ret' = [ret EXCEPT ![t] = 0]
    /\ pre' = Snapshot
    /\ reqHooks' = <<>>
    /\ reqTrace' = <<>>
    /\ UNCHANGED <<boost_refcount, published, env, hookState, write, procOut,
                   lastRaw>>

\* if (verify_boost_params(type)) _sched_set_boost(type); else ret = -EINVAL;
sched_set_boost_verify(t) ==
    /\ pc[t] = "set_verify"
    /\ IF verify_boost_params(type[t])
       THEN /\ pc' = [pc EXCEPT ![t] = "switch"]
            /\ ret' = ret
       ELSE /\ pc' = [pc EXCEPT ![t] = "unlock"]
            /\ ret' = [ret EXCEPT ![t] = 0 - EINVAL]
    /\ UNCHANGED <<boost_refcount, published, env, boost_mutex, hookState,
                   entry, req, type, write, procOut, observed>>

\* sched_boost_handler(table, write, ...): mutex_lock returns.
sched_boost_handler_lock(t, m) ==
    /\ pc[t] = m.hFrom
    /\ phase = "run"
    /\ MutexFree
    /\ \E w \in BOOLEAN : write' = [write EXCEPT ![t] = w]
    /\ boost_mutex' = t
    /\ pc' = [pc EXCEPT ![t] = "h_proc"]
    /\ entry' = [entry EXCEPT ![t] = "sched_boost_handler"]
    /\ ret' = [ret EXCEPT ![t] = 0]
    /\ pre' = Snapshot
    /\ reqHooks' = <<>>
    /\ reqTrace' = <<>>
    /\ UNCHANGED <<boost_refcount, published, env, hookState, req, type, rt,
                   procOut, lastRaw, held>>

\* The generic handler: it fails and stores nothing, or (on a read) copies the
\* integer in table->data, which is sysctl_sched_boost, to the caller and
\* succeeds, or (on a write) stores the parsed integer there.
proc_dointvec_minmax(w) ==
    {[ret |-> 0 - e, store |-> FALSE, val |-> 0, rd |-> 0] : e \in {EINVAL, EFAULT}}
    \cup (IF w THEN {[ret |-> 0, store |-> TRUE, val |-> v, rd |-> 0] : v \in ArgCodes}
               ELSE {[ret |-> 0, store |-> FALSE, val |-> 0,
                      rd |-> sysctl_sched_boost]})

\* Variant: only a failure of the generic handler skips the request.
HandlerSkips_RetOnly(r, w) == r # 0

\* if (ret || !write) goto done;
HandlerSkips(r, w) == r # 0 \/ ~w

\* ret = proc_dointvec_minmax(...); if (ret || !write) goto done;
sched_boost_handler_proc(t, m) ==
    /\ pc[t] = "h_proc"
    /\ \E out \in proc_dointvec_minmax(write[t]), start \in m.starts :
          /\ out.store => WithinCap(out.val)
          /\ out.store => WithinModeCap(out.val, m)
          /\ procOut' = [procOut EXCEPT ![t] = out]
          /\ ret' = [ret EXCEPT ![t] = out.ret]
          /\ sysctl_sched_boost' =
                IF out.store THEN out.val ELSE sysctl_sched_boost
          /\ lastRaw' = IF m.raw /\ out.store THEN <<out.val>> ELSE lastRaw
          /\ req' = [req EXCEPT ![t] = IF out.store THEN <<out.val>> ELSE <<>>]
          /\ rt' = IF out.store THEN RtStep(rt, out.val, pre, start) ELSE RtOff
          /\ pc' = [pc EXCEPT ![t] =
                       IF HandlerSkips(out.ret, write[t]) THEN "unlock"
                       ELSE "h_verify"]
    /\ UNCHANGED <<boost_refcount, sched_boost_type, boost_policy, env,
                   boost_mutex, hookState, entry, type, write, pre, reqHooks,
                   reqTrace, held>>

\* Variant: *data is read through a pointer to a 16-bit unsigned integer, so a
\* negative code is seen as a large positive one.
HandlerData_Narrow ==
    IF sysctl_sched_boost < 0 THEN 65536 + sysctl_sched_boost
    ELSE sysctl_sched_boost

\* *data, with data == table->data: the integer just stored, as an int.
HandlerData == sysctl_sched_boost

\* if (verify_boost_params(*data)) _sched_set_boost(*data); else ret = -EINVAL;
sched_boost_handler_verify(t) ==
    /\ pc[t] = "h_verify"
    /\ LET data == HandlerData
       IN IF verify_boost_params(data)
          THEN /\ pc' = [pc EXCEPT ![t] = "switch"]
               /\ type' = [type EXCEPT ![t] = data]
               /\ ret' = ret
          ELSE /\ pc' = [pc EXCEPT ![t] = "unlock"]
               /\ type' = type
               /\ ret' = [ret EXCEPT ![t] = 0 - EINVAL]
    /\ UNCHANGED <<boost_refcount, published, env, boost_mutex, hookState,
                   entry, req, write, procOut, observed>>

\* _sched_set_boost, lines 72-157: the switch and the aggregation into the
\* local `type`; the default case returns at once.
sched_set_boost_switch(t) ==
    /\ pc[t] = "switch"
    /\ IF SwitchHandles(type[t])
       THEN LET eff == SwitchEffect(boost_refcount, type[t])
            IN /\ boost_refcount' = eff.rc
               /\ core_ctl_boost' =
                     LastArg(eff.hooks, {"core_ctl_set_boost"}, core_ctl_boost)
               /\ freq_aggregation' =
                     LastArg(eff.hooks, {"walt_enable_frequency_aggregation"},
                             freq_aggregation)
               /\ cgroup_updated' =
                     LastArg(eff.hooks, {"update_cgroup_boost_settings",
                                         "restore_cgroup_boost_settings"},
                             cgroup_updated)
               /\ reqHooks' = reqHooks \o
                     [i \in 1..Len(eff.hooks) |->
                        [fn |-> eff.hooks[i].fn, arg |-> eff.hooks[i].arg, by |-> t]]
               /\ type' = [type EXCEPT ![t] = AggregateType(eff.rc)]
               /\ pc' = [pc EXCEPT ![t] = "L159"]
       ELSE /\ pc' = [pc EXCEPT ![t] = "unlock"]
            /\ UNCHANGED <<boost_refcount, hookState, reqHooks, type>>
    /\ UNCHANGED <<published, env, boost_mutex, entry, req, write, ret, procOut,
                   pre, reqTrace, rt, lastRaw, held>>

\* sched_boost_type = type;
sched_set_boost_L159(t) ==
    /\ pc[t] = "L159"
    /\ sched_boost_type' = type[t]
    /\ pc' = [pc EXCEPT ![t] = "L160"]
    /\ UNCHANGED <<boost_refcount, sysctl_sched_boost, boost_policy, env,
                   boost_mutex, hookState, locals, observed>>

\* Variant: line 160 is missing, the sysctl entry keeps what was written.
SysctlAfterPublish_Kept(t) == sysctl_sched_boost

\* The value of sysctl_sched_boost after line 160.
SysctlAfterPublish(t) == type[t]

\* sysctl_sched_boost = type;
sched_set_boost_L160(t) ==
    /\ pc[t] = "L160"
    /\ sysctl_sched_boost' = SysctlAfterPublish(t)
    /\ pc' = [pc EXCEPT ![t] = "L162"]
    /\ UNCHANGED <<boost_refcount, sched_boost_type, boost_policy, env,
                   boost_mutex, hookState, locals, observed>>

\* set_boost_policy(type);
sched_set_boost_L162(t) ==
    /\ pc[t] = "L162"
    /\ boost_policy' = set_boost_policy(type[t])
    /\ pc' = [pc EXCEPT ![t] = "L163"]
    /\ UNCHANGED <<boost_refcount, sched_boost_type, sysctl_sched_boost, env,
                   boost_mutex, hookState, locals, observed>>

\* Variant: the event carries the request code the call was made with.
TraceArg_Request(t) == req[t][1]

\* The argument of trace_sched_set_boost: the local `type`, by now the
\* aggregate.
TraceArg(t) == type[t]

\* trace_sched_set_boost(type);
sched_set_boost_L163(t) ==
    /\ pc[t] = "L163"
    /\ reqTrace' = Append(reqTrace, TraceArg(t))
    /\ pc' = [pc EXCEPT ![t] = "unlock"]
    /\ UNCHANGED <<boost_refcount, published, env, boost_mutex, hookState,
                   locals, pre, reqHooks, rt, lastRaw, held>>

\* Variant: the handler returns from `if (ret || !write)` instead of going to
\* done, and the mutex stays locked.
UnlockOwner_EarlyReturn(t) ==
    IF entry[t] = "sched_boost_handler" /\ HandlerSkips(procOut[t].ret, write[t])
    THEN boost_mutex ELSE NoOwner

\* The owner of boost_mutex after the mutex_unlock that ends t's call.
UnlockOwner(t) == NoOwner

\* mutex_unlock(&boost_mutex); return ret;
mutex_unlock_return(t) ==
    /\ pc[t] = "unlock"
    /\ boost_mutex' = UnlockOwner(t)
    /\ pc' = [pc EXCEPT ![t] = "idle"]
    /\ entry' = [entry EXCEPT ![t] = "none"]
    /\ req' = [req EXCEPT ![t] = <<>>]
    /\ type' = [type EXCEPT ![t] = 0]
    /\ write' = [write EXCEPT ![t] = FALSE]
    /\ ret' = [ret EXCEPT ![t] = 0]
    /\ procOut' = [procOut EXCEPT ![t] = NoProcOut]
    /\ pre' = NoSnapshot
    /\ reqHooks' = <<>>
    /\ reqTrace' = <<>>
    /\ UNCHANGED <<boost_refcount, published, env, hookState, rt, lastRaw, held>>

\* The steps of _sched_set_boost and the return, common to both entry points.
Body(t) ==
    \/ sched_set_boost_switch(t)
    \/ sched_set_boost_L159(t)
    \/ sched_set_boost_L160(t)
    \/ sched_set_boost_L162(t)
    \/ sched_set_boost_L163(t)
    \/ mutex_unlock_return(t)

\* One step of thread t in mode m.
Step(t, m) ==
    \/ sched_set_boost_lock(t, m)
    \/ sched_set_boost_verify(t)
    \/ sched_boost_handler_lock(t, m)
    \/ sched_boost_handler_proc(t, m)
    \/ sched_boost_handler_verify(t)
    \/ Body(t)

Next ==
    \/ sched_boost_parse_dt
    \/ \E t \in Threads : Step(t, ModePlain)

Spec == Init /\ [][Next]_vars

\* The same program, with the runs of enables and disables followed in rt.
NextRT ==
    \/ sched_boost_parse_dt
    \/ \E t \in Threads : Step(t, ModeRT)

SpecRT == Init /\ [][NextRT]_vars

\* The same program, with the last integer stored through the sysctl entry
\* recorded in lastRaw.
NextRW ==
    \/ sched_boost_parse_dt
    \/ \E t \in Threads : Step(t, ModeRW)

SpecRW == Init /\ [][NextRW]_vars

\* Callers of sched_set_boost that match each of their enables with one
\* disable and never clear.
NextPairs ==
    \/ sched_boost_parse_dt
    \/ \E t \in Threads :
          \/ sched_set_boost_lock(t, ModePairs)
          \/ sched_set_boost_verify(t)
          \/ Body(t)

SpecPairs == Init /\ [][NextPairs]_vars

\* The same program with the wait at mutex_lock as a position of its own, a
\* mutex that serves every waiting caller, and steps inside the critical
\* section (hooks included) that terminate.
InCritical(t) ==
    \/ sched_set_boost_verify(t)
    \/ sched_boost_handler_proc(t, ModeLive)
    \/ sched_boost_handler_verify(t)
    \/ Body(t)

NextLive ==
    \/ sched_boost_parse_dt
    \/ \E t \in Threads :
          \/ sched_set_boost_call(t)
          \/ sched_boost_handler_call(t)
          \/ Step(t, ModeLive)

SpecLive ==
    /\ Init
    /\ [][NextLive]_vars
    /\ \A t \in Threads :
          /\ SF_vars(sched_set_boost_lock(t, ModeLive))
          /\ SF_vars(sched_boost_handler_lock(t, ModeLive))
          /\ WF_vars(InCritical(t))

\* ================================================================= claims
Kinds == {FULL_THROTTLE_BOOST, CONSERVATIVE_BOOST, RESTRAINED_BOOST}
Running(t) == pc[t] # "idle"

\* C1: whenever boost_mutex is free, sched_boost_type is FullThrottle if its
\* refcount is > 0, else Conservative if its refcount is > 0, else Restrained
\* if its refcount is > 0, else None: a function of the refcount vector alone.
C1_AggregateOfRefcounts ==
    boost_mutex = NoOwner =>
        sched_boost_type =
            IF boost_refcount[FULL_THROTTLE_BOOST] > 0 THEN FULL_THROTTLE_BOOST
            ELSE IF boost_refcount[CONSERVATIVE_BOOST] > 0 THEN CONSERVATIVE_BOOST
            ELSE IF boost_refcount[RESTRAINED_BOOST] > 0 THEN RESTRAINED_BOOST
            ELSE NO_BOOST

\* Conservative and Restrained are both held, FullThrottle is not, no request runs.
C1_Witness ==
    /\ boost_mutex = NoOwner
    /\ boost_refcount[FULL_THROTTLE_BOOST] = 0
    /\ boost_refcount[CONSERVATIVE_BOOST] > 0
    /\ boost_refcount[RESTRAINED_BOOST] > 0
    /\ sched_boost_type = CONSERVATIVE_BOOST

\* C2: every entry of boost_refcount is >= 0 in every reachable state, the
\* states inside a running request included.
C2_RefcountNonNegative ==
    \A k \in DOMAIN boost_refcount : boost_refcount[k] >= 0

\* A disable has run its switch case on a kind nobody holds.
C2_Witness ==
    \E t \in Threads :
        /\ pc[t] = "L159"
        /\ req[t] = <<CONSERVATIVE_BOOST_DISABLE>>
        /\ pre.rc[CONSERVATIVE_BOOST] = 0
        /\ boost_refcount[CONSERVATIVE_BOOST] = 0

\* C3: a request calls a hook only if one entry of boost_refcount went from 0
\* to 1 or from a positive value to 0 during it; an enable of a kind already
\* held and a disable of a kind held at least twice call no hook.
C3_HooksOnlyOnEdges ==
    /\ reqHooks # <<>> =>
          \E k \in Kinds :
              \/ pre.rc[k] = 0 /\ boost_refcount[k] = 1
              \/ pre.rc[k] > 0 /\ boost_refcount[k] = 0
    /\ \A t \in Threads : \A k \in Kinds :
          /\ Running(t) /\ req[t] = <<k>> /\ pre.rc[k] >= 1 => reqHooks = <<>>
          /\ Running(t) /\ req[t] = <<0 - k>> /\ pre.rc[k] >= 2 => reqHooks = <<>>

\* The second overlapping enable of FullThrottle has been applied without a hook.
C3_Witness ==
    \E t \in Threads :
        /\ pc[t] = "unlock"
        /\ req[t] = <<FULL_THROTTLE_BOOST>>
        /\ pre.rc[FULL_THROTTLE_BOOST] = 1
        /\ boost_refcount[FULL_THROTTLE_BOOST] = 2
        /\ reqHooks = <<>>

\* C4: at most one thread is between mutex_lock and mutex_unlock, it is the
\* owner of boost_mutex, and every hook call since the lock was last taken was
\* made by that owner, so the hook calls of two requests never interleave.
C4_MutualExclusion ==
    /\ Cardinality({t \in Threads : Running(t)}) <= 1
    /\ \A t \in Threads : Running(t) => boost_mutex = t
    /\ \A i \in 1..Len(reqHooks) : reqHooks[i].by = boost_mutex

\* Thread 2 is inside a request that has called hooks, on a refcount that an
\* earlier request left behind.
C4_Witness ==
    /\ pc[2] = "L162"
    /\ req[2] = <<FULL_THROTTLE_BOOST_DISABLE>>
    /\ pre.rc[FULL_THROTTLE_BOOST] = 1
    /\ Len(reqHooks) >= 2
    /\ pc[1] = "idle"

\* C5: in every state, also while a request runs, boost_policy is
\* SCHED_BOOST_NONE if and only if sched_boost_type is NO_BOOST or
\* RESTRAINED_BOOST.
C5_PairAlwaysConsistent ==
    (boost_policy = SCHED_BOOST_NONE)
        <=> (sched_boost_type \in {NO_BOOST, RESTRAINED_BOOST})

\* The followed run has ended: as many disables as enables have completed.
RunComplete == boost_mutex = NoOwner /\ rt.on /\ rt.up >= 1 /\ rt.down = rt.up

\* C6 as stated: N enables of a kind followed by N disables of it leave
\* boost_refcount, sched_boost_type, boost_policy and sysctl_sched_boost as
\* they were before the first enable.
C6_RoundTripRestoresAll ==
    RunComplete =>
        /\ boost_refcount = rt.snap.rc
        /\ sched_boost_type = rt.snap.type
        /\ boost_policy = rt.snap.pol
        /\ sysctl_sched_boost = rt.snap.sysctl

\* C6 as amended: the round trip restores boost_refcount, sched_boost_type and
\* boost_policy, and leaves sysctl_sched_boost equal to sched_boost_type, which
\* is its earlier value whenever it held the published kind before.
C6_RoundTripRestoresAggregate ==
    RunComplete =>
        /\ boost_refcount = rt.snap.rc
        /\ sched_boost_type = rt.snap.type
        /\ boost_policy = rt.snap.pol
        /\ sysctl_sched_boost = sched_boost_type
        /\ rt.snap.sysctl = rt.snap.type => sysctl_sched_boost = rt.snap.sysctl

\* Two enables and two disables of Restrained have completed, started while
\* Conservative was held.
C6_Witness ==
    /\ RunComplete
    /\ rt.kind = RESTRAINED_BOOST
    /\ rt.up = 2
    /\ rt.snap.rc[CONSERVATIVE_BOOST] > 0
    /\ rt.snap.type = CONSERVATIVE_BOOST

\* C7: a NO_BOOST request ends with every refcount 0, sched_boost_type
\* NO_BOOST and boost_policy SCHED_BOOST_NONE, whatever was held before.
C7_ClearAll ==
    \A t \in Threads :
        pc[t] = "unlock" /\ req[t] = <<NO_BOOST>> =>
            /\ \A k \in Kinds : boost_refcount[k] = 0
            /\ sched_boost_type = NO_BOOST
            /\ boost_policy = SCHED_BOOST_NONE

\* A clear-all has completed that was issued while all three kinds were held.
C7_Witness ==
    \E t \in Threads :
        /\ pc[t] = "unlock"
        /\ req[t] = <<NO_BOOST>>
        /\ \A k \in Kinds : pre.rc[k] > 0
        /\ \A k \in Kinds : boost_refcount[k] = 0

\* A disable of a kind nobody held has run to its end.
NoOpDisableDone(t) ==
    /\ pc[t] = "unlock"
    /\ \E k \in Kinds : req[t] = <<0 - k>> /\ pre.rc[k] = 0

\* C8 as stated: a disable of a kind whose refcount is 0 returns 0, calls no
\* hook and leaves boost_refcount, sched_boost_type, boost_policy and
\* sysctl_sched_boost as they were before the call.
C8_NoOpDisableChangesNothing ==
    \A t \in Threads :
        NoOpDisableDone(t) =>
            /\ ret[t] = 0
            /\ reqHooks = <<>>
            /\ boost_refcount = pre.rc
            /\ sched_boost_type = pre.type
            /\ boost_policy = pre.pol
            /\ sysctl_sched_boost = pre.sysctl

\* C8 as amended: such a disable returns 0, calls no hook, leaves
\* boost_refcount, sched_boost_type and boost_policy as they were, and leaves
\* sysctl_sched_boost equal to sched_boost_type.
C8_NoOpDisableKeepsAggregate ==
    \A t \in Threads :
        NoOpDisableDone(t) =>
            /\ ret[t] = 0
            /\ reqHooks = <<>>
            /\ boost_refcount = pre.rc
            /\ sched_boost_type = pre.type
            /\ boost_policy = pre.pol
            /\ sysctl_sched_boost = sched_boost_type

\* A write of FULL_THROTTLE_BOOST_DISABLE through the handler has completed;
\* FullThrottle was not held, Conservative was.
C8_Witness ==
    \E t \in Threads :
        /\ NoOpDisableDone(t)
        /\ entry[t] = "sched_boost_handler"
        /\ req[t] = <<FULL_THROTTLE_BOOST_DISABLE>>
        /\ pre.rc[CONSERVATIVE_BOOST] > 0

\* C9: when a request has completed (and whenever no request runs)
\* boost_policy is NONE for the kinds None and Restrained, else the boot-time
\* override if one is set, else ON_BIG if min and max efficiency differ, else
\* ON_ALL.
C9_PolicyRule ==
    (boost_mutex = NoOwner \/ \E t \in Threads : pc[t] = "unlock") =>
        boost_policy =
            IF sched_boost_type \in {NO_BOOST, RESTRAINED_BOOST}
            THEN SCHED_BOOST_NONE
            ELSE IF boost_policy_dt \in {SCHED_BOOST_ON_ALL, SCHED_BOOST_ON_BIG}
            THEN boost_policy_dt
            ELSE IF min_possible_efficiency # max_possible_efficiency
            THEN SCHED_BOOST_ON_BIG
            ELSE SCHED_BOOST_ON_ALL

\* Override ON_ALL on a heterogeneous processor set: a FullThrottle request
\* has completed and the policy is ON_ALL.
C9_Witness ==
    \E t \in Threads :
        /\ pc[t] = "unlock"
        /\ reqTrace # <<>>
        /\ boost_policy_dt = SCHED_BOOST_ON_ALL
        /\ min_possible_efficiency # max_possible_efficiency
        /\ sched_boost_type = FULL_THROTTLE_BOOST
        /\ boost_policy = SCHED_BOOST_ON_ALL

\* C10: sched_set_boost with a code outside -3..3 returns -EINVAL, calls no
\* hook, emits no trace event and leaves boost_refcount, sched_boost_type,
\* boost_policy and sysctl_sched_boost unchanged.
C10_InvalidCodeRejected ==
    \A t \in Threads :
        /\ pc[t] = "unlock"
        /\ entry[t] = "sched_set_boost"
        /\ \E c \in ArgCodes : (c < -3 \/ c > 3) /\ req[t] = <<c>>
        => /\ ret[t] = 0 - EINVAL
           /\ reqHooks = <<>>
           /\ reqTrace = <<>>
           /\ boost_refcount = pre.rc
           /\ sched_boost_type = pre.type
           /\ boost_policy = pre.pol
           /\ sysctl_sched_boost = pre.sysctl

\* sched_set_boost(4) has returned to its unlock while FullThrottle is held.
C10_Witness ==
    \E t \in Threads :
        /\ pc[t] = "unlock"
        /\ entry[t] = "sched_set_boost"
        /\ req[t] = <<RESTRAINED_BOOST + 1>>
        /\ ret[t] = 0 - EINVAL
        /\ boost_refcount[FULL_THROTTLE_BOOST] > 0

\* The integer c is one of the seven request codes.
LegalCode(c) == c \in {-3, -2, -1, 0, 1, 2, 3}

\* C11: a write through sched_boost_handler whose parsed value is not a legal
\* request code returns -EINVAL, calls no hook and leaves boost_refcount,
\* sched_boost_type and boost_policy unchanged; the stored integer does not
\* become the active kind.
C11_HandlerRejectsIllegal ==
    \A t \in Threads :
        /\ pc[t] = "unlock"
        /\ entry[t] = "sched_boost_handler"
        /\ \E c \in ArgCodes : ~LegalCode(c) /\ req[t] = <<c>>
        => /\ ret[t] = 0 - EINVAL
           /\ reqHooks = <<>>
           /\ boost_refcount = pre.rc
           /\ sched_boost_type = pre.type
           /\ boost_policy = pre.pol
           /\ sched_boost_type # req[t][1]

\* The handler has rejected a write of -4 made while Restrained was held; the
\* integer is left in sysctl_sched_boost.
C11_Witness ==
    \E t \in Threads :
        /\ pc[t] = "unlock"
        /\ entry[t] = "sched_boost_handler"
        /\ req[t] = <<RESTRAINED_BOOST_DISABLE - 1>>
        /\ ret[t] = 0 - EINVAL
        /\ sysctl_sched_boost = RESTRAINED_BOOST_DISABLE - 1
        /\ sched_boost_type = RESTRAINED_BOOST

\* The hook calls of the running request, without the caller's identity.
HooksMade == [i \in 1..Len(reqHooks) |-> Hook(reqHooks[i].fn, reqHooks[i].arg)]

\* What sched_set_boost(c) leaves behind when started in the state snap.
AfterDirect(snap, c) ==
    LET eff == SwitchEffect(snap.rc, c)
        agg == AggregateType(eff.rc)
    IN [rc |-> eff.rc, hooks |-> eff.hooks, type |-> agg, sysctl |-> agg,
        pol |-> set_boost_policy(agg), trace |-> <<agg>>, ret |-> 0]

\* What the running request has left behind.
AfterNow(t) ==
    [rc |-> boost_refcount, hooks |-> HooksMade, type |-> sched_boost_type,
     sysctl |-> sysctl_sched_boost, pol |-> boost_policy, trace |-> reqTrace,
     ret |-> ret[t]]

\* C12: a write of a legal code c through sched_boost_handler ends in the
\* state, with the hook calls and with the return value 0, that
\* sched_set_boost(c) ends with when started in the same state.
C12_HandlerWriteEqualsDirect ==
    \A t \in Threads :
        /\ pc[t] = "unlock"
        /\ \E c \in ArgCodes : LegalCode(c) /\ req[t] = <<c>>
        => AfterNow(t) = AfterDirect(pre, req[t][1])

\* A write of CONSERVATIVE_BOOST_DISABLE through the handler has run to its
\* end and has called a hook.
C12_Witness ==
    \E t \in Threads :
        /\ pc[t] = "unlock"
        /\ entry[t] = "sched_boost_handler"
        /\ req[t] = <<CONSERVATIVE_BOOST_DISABLE>>
        /\ pre.rc[CONSERVATIVE_BOOST] = 1
        /\ reqHooks # <<>>

\* A read through the handler has succeeded and is about to return.
ReadDone(t) ==
    /\ pc[t] = "unlock"
    /\ entry[t] = "sched_boost_handler"
    /\ ~write[t]
    /\ procOut[t].ret = 0

\* C13 as stated: a read through the handler returns the last integer that was
\* written through it.
C13_ReadReturnsLastWritten ==
    \A t \in Threads :
        ReadDone(t) /\ lastRaw # <<>> => procOut[t].rd = lastRaw[1]

\* C13 as amended: a read returns the published kind sched_boost_type, except
\* that after a write the handler rejected, and until the next valid request,
\* it returns the rejected integer; it returns the published kind whenever the
\* last write carried a legal code or nothing was written yet.
C13_ReadReturnsPublishedKind ==
    \A t \in Threads :
        ReadDone(t) =>
            /\ \/ procOut[t].rd = sched_boost_type
               \/ lastRaw = <<procOut[t].rd>> /\ ~LegalCode(procOut[t].rd)
            /\ (lastRaw = <<>> \/ LegalCode(lastRaw[1])) =>
                  procOut[t].rd = sched_boost_type

\* A read returns 1 while FullThrottle is held and the last write was 3.
C13_Witness ==
    \E t \in Threads :
        /\ ReadDone(t)
        /\ lastRaw = <<RESTRAINED_BOOST>>
        /\ procOut[t].rd = FULL_THROTTLE_BOOST
        /\ sched_boost_type = FULL_THROTTLE_BOOST

\* C14: a completed valid request has emitted exactly one
\* trace_sched_set_boost event, which carries the published aggregate kind and
\* is emitted after that kind is stored; a rejected request and a call that
\* makes no request emit none.
C14_OneTracePerRequest ==
    /\ reqTrace # <<>> => reqTrace = <<sched_boost_type>>
    /\ \A t \in Threads :
          pc[t] = "unlock" =>
              IF req[t] # <<>> /\ LegalCode(req[t][1])
              THEN reqTrace = <<AggregateType(boost_refcount)>>
              ELSE reqTrace = <<>>

\* A RESTRAINED_BOOST request made while Conservative is held has emitted one
\* event, for Conservative.
C14_Witness ==
    \E t \in Threads :
        /\ pc[t] = "unlock"
        /\ req[t] = <<RESTRAINED_BOOST>>
        /\ reqTrace = <<CONSERVATIVE_BOOST>>

\* C15: whenever no request runs, frequency aggregation is enabled if and only
\* if FullThrottle or Restrained is held.
C15_FrequencyAggregation ==
    boost_mutex = NoOwner =>
        (freq_aggregation <=>
            (boost_refcount[FULL_THROTTLE_BOOST] > 0
             \/ boost_refcount[RESTRAINED_BOOST] > 0))

\* FullThrottle has just been withdrawn while Restrained is held: no disable
\* of frequency aggregation was called and it is still enabled.
C15_Witness ==
    \E t \in Threads :
        /\ pc[t] = "unlock"
        /\ req[t] = <<FULL_THROTTLE_BOOST_DISABLE>>
        /\ pre.rc[FULL_THROTTLE_BOOST] = 1
        /\ boost_refcount[RESTRAINED_BOOST] > 0
        /\ \A i \in 1..Len(reqHooks) :
              reqHooks[i].fn # "walt_enable_frequency_aggregation"
        /\ freq_aggregation

\* C16: whenever no request runs, the cgroup boost settings are updated if and
\* only if Conservative is held and FullThrottle is not.
C16_CgroupSettings ==
    boost_mutex = NoOwner =>
        (cgroup_updated <=>
            (boost_refcount[CONSERVATIVE_BOOST] > 0
             /\ boost_refcount[FULL_THROTTLE_BOOST] = 0))

\* Conservative has been enabled while FullThrottle is held: the settings stay
\* restored.
C16_Witness ==
    \E t \in Threads :
        /\ pc[t] = "unlock"
        /\ req[t] = <<CONSERVATIVE_BOOST>>
        /\ pre.rc[CONSERVATIVE_BOOST] = 0
        /\ boost_refcount[FULL_THROTTLE_BOOST] > 0
        /\ ~cgroup_updated

\* The system is idle: nothing is held, nothing is boosted.
SystemIdle ==
    /\ \A k \in Kinds : boost_refcount[k] = 0
    /\ sched_boost_type = NO_BOOST
    /\ boost_policy = SCHED_BOOST_NONE
    /\ ~core_ctl_boost
    /\ ~freq_aggregation
    /\ ~cgroup_updated

\* Every caller has withdrawn each of its enables and has no request running.
AllWithdrawn ==
    \A t \in Threads :
        /\ pc[t] \in {"idle", "unlock"}
        /\ \A k \in Kinds : held[t][k] = 0

\* C17: concurrent callers that each withdraw exactly what they enabled, in
\* any interleaving and without clear-all, leave the system idle once all of
\* them have finished.
C17_PairedCallersReturnToIdle == AllWithdrawn => SystemIdle

\* The last outstanding enable has just been withdrawn and no caller holds
\* anything: the request that ran found a boost published and left none.
C17_Witness ==
    \E t \in Threads :
        /\ AllWithdrawn
        /\ pc[t] = "unlock"
        /\ \E k \in Kinds : req[t] = <<0 - k>> /\ pre.rc[k] = 1
        /\ pre.type # NO_BOOST
        /\ SystemIdle

\* A valid request has run to its end.
ValidDone(t) ==
    /\ pc[t] = "unlock"
    /\ req[t] # <<>>
    /\ LegalCode(req[t][1])

\* C18 as stated: a valid request fires a hook if and only if the published
\* kind after it differs from the published kind before it.
C18_HookIffKindChanged ==
    \A t \in Threads :
        ValidDone(t) => (reqHooks # <<>> <=> sched_boost_type # pre.type)

\* C18 as amended: a valid request that changes the published kind fires at
\* least one hook, and a valid request that fires a hook has moved the
\* refcount of some kind between zero and non-zero; a hook can fire while the
\* published kind stays the same.
C18_KindChangeFiresHook ==
    \A t \in Threads :
        ValidDone(t) =>
            /\ sched_boost_type # pre.type => reqHooks # <<>>
            /\ reqHooks # <<>> =>
                  \E k \in Kinds : (pre.rc[k] = 0) # (boost_refcount[k] = 0)

\* Restrained enabled on an idle system: the kind changes and frequency
\* aggregation is enabled.
C18_Witness ==
    \E t \in Threads :
        /\ ValidDone(t)
        /\ req[t] = <<RESTRAINED_BOOST>>
        /\ pre.type = NO_BOOST
        /\ sched_boost_type = RESTRAINED_BOOST
        /\ HooksMade = <<walt_enable_frequency_aggregation(TRUE)>>

\* sched_boost_handler is about to return without having made a request.
HandlerSkipped(t) ==
    /\ pc[t] = "unlock"
    /\ entry[t] = "sched_boost_handler"
    /\ (~write[t] \/ procOut[t].ret # 0)

\* C20: a call of sched_boost_handler that is a read, or whose
\* proc_dointvec_minmax step fails, returns the result of that step, does not
\* reach _sched_set_boost, fires no hook and leaves boost_refcount,
\* sched_boost_type and boost_policy as they were.
C20_ReadOrErrorIsPassThrough ==
    \A t \in Threads :
        HandlerSkipped(t) =>
            /\ ret[t] = procOut[t].ret
            /\ req[t] = <<>>
            /\ reqHooks = <<>>
            /\ reqTrace = <<>>
            /\ boost_refcount = pre.rc
            /\ sched_boost_type = pre.type
            /\ boost_policy = pre.pol

\* A write whose parse step failed returns that failure while Conservative is
\* held.
C20_Witness ==
    \E t \in Threads :
        /\ HandlerSkipped(t)
        /\ write[t]
        /\ procOut[t].ret # 0
        /\ ret[t] = procOut[t].ret
        /\ sched_boost_type = CONSERVATIVE_BOOST

\* C19: sched_set_boost and sched_boost_handler release boost_mutex on every
\* return path, so a caller that has returned never owns it, and under a fair
\* mutex and terminating hooks every call that was started returns.
C19_EveryCallReturns ==
    \A t \in Threads :
        /\ [](pc[t] = "idle" => boost_mutex # t)
        /\ (pc[t] # "idle") ~> (pc[t] = "idle")

\* A caller waits at mutex_lock while the owner is about to return from a
\* handler call whose parse step failed.
C19_Witness ==
    \E t \in Threads, u \in Threads :
        /\ pc[u] \in {"set_wait", "h_wait"}
        /\ boost_mutex = t
        /\ pc[t] = "unlock"
        /\ entry[t] = "sched_boost_handler"
        /\ procOut[t].ret # 0

====
